---- MODULE Spec2Model ----
(***************************************************************************)
(* Model of the react19-nexus core logic:                                  *)
(*   - EventBus          (src/shared/utils/eventBus.ts)                    *)
(*   - TodoList          (components/TodoList.tsx)                         *)
(*   - TodoListEnhanced  (components/TodoListEnhanced.tsx)                 *)
(***************************************************************************)
EXTENDS Integers, Sequences, FiniteSets, TLC

VARIABLES events, handle, onceCount, onceCalls, lastOp,
          todos, pending, basic, nextId, now, issued, lastTodo,
          tasks, inflight, formState, lastTask, emitted,
          filter, routes, defaultRoute, currentRoute,
          handler, handlerRef, stableFn, renders, lastCall,
          activeViewId, closureViewId, viewStates

busVars == <<events, handle, onceCount, onceCalls, lastOp>>
todoVars == <<todos, pending, basic, nextId, now, issued, lastTodo>>
taskVars == <<tasks, inflight, formState, lastTask, emitted>>
routerVars == <<routes, defaultRoute, currentRoute>>
eventVars == <<handler, handlerRef, stableFn, renders, lastCall>>
activityVars == <<activeViewId, closureViewId, viewStates>>
uiVars == <<filter, routerVars, eventVars, activityVars>>
vars == <<events, handle, onceCount, onceCalls, lastOp,
         todos, pending, basic, nextId, now, issued, lastTodo,
         tasks, inflight, formState, lastTask, emitted,
         filter, routes, defaultRoute, currentRoute,
         handler, handlerRef, stableFn, renders, lastCall,
         activeViewId, closureViewId, viewStates>>

(***************************************************************************)
(* Bounds                                                                  *)
(***************************************************************************)
MaxSubs == 2
MaxOnce == 1
MaxCalls == 2
MaxData == 1
MaxOps == 3
MaxTime == 1
MaxRenders == 2
MaxTaskOps == 4

(***************************************************************************)
(* EventBus: names, callbacks                                              *)
(***************************************************************************)
\* Property names every plain object literal inherits from Object.prototype.
ProtoNames == {"constructor", "toString"}

TASK_CREATED == "task:created"
TASK_UPDATED == "task:updated"
TASK_DELETED == "task:deleted"

EventNames == {"", TASK_CREATED, "constructor"}

Data == 0..MaxData

\* A callback is a function value; identity is <<kind, inner, event, n>>.
\* The plain callbacks close over the bus and over TASK_CREATED.
Cb(kind) == <<kind, "", "", 0>>
BaseKinds == {"cb1", "thrower", "offSelf", "offCb1", "reEmit"}
BaseCallbacks == {Cb(k) : k \in BaseKinds}
\* The callbacks subscribed under each name: the ones whose body calls the
\* bus act on TASK_CREATED and are subscribed to it.
CallbacksFor(e) == IF e = TASK_CREATED THEN BaseCallbacks ELSE {Cb("cb1"), Cb("thrower")}
OnceCallback(inner, e, n) == <<"once", inner[1], e, n>>

NoCb == Cb("none")
NoHandle == <<"", NoCb, FALSE>>
Handle(e, cb) == <<e, cb, TRUE>>

(***************************************************************************)
(* EventBus: the registry, a plain object used as a map                    *)
(***************************************************************************)
EmptyEvents == [k \in {} |-> <<>>]

\* this.events[event]: an own array, a value inherited from Object.prototype
\* (truthy, without push/filter/forEach), or undefined.
Lookup(ev, e) ==
  IF e \in DOMAIN ev THEN "array"
  ELSE IF e \in ProtoNames THEN "inherited"
  ELSE "undefined"

Put(ev, e, list) == [k \in (DOMAIN ev) \cup {e} |-> IF k = e THEN list ELSE ev[k]]
Del(ev, e) == [k \in (DOMAIN ev) \ {e} |-> ev[k]]

Filter(list, cb) == SelectSeq(list, LAMBDA x : x # cb)

\* on that puts the new callback in front (unshift instead of push).
OnRunUnshift(ev, e, cb) ==
  LET ev1 == IF Lookup(ev, e) = "undefined" THEN Put(ev, e, <<>>) ELSE ev
  IN IF Lookup(ev1, e) = "inherited"
     THEN [events |-> ev1, threw |-> "TypeError"]
     ELSE [events |-> Put(ev1, e, <<cb>> \o ev1[e]), threw |-> "none"]

\* on that silently ignores the empty event name.
OnRunRejectEmpty(ev, e, cb) ==
  LET ev1 == IF Lookup(ev, e) = "undefined" THEN Put(ev, e, <<>>) ELSE ev
  IN IF e = "" THEN [events |-> ev, threw |-> "none"]
     ELSE IF Lookup(ev1, e) = "inherited"
     THEN [events |-> ev1, threw |-> "TypeError"]
     ELSE [events |-> Put(ev1, e, Append(ev1[e], cb)), threw |-> "none"]

\* on(event, callback)
OnRun(ev, e, cb) ==
  LET ev1 == IF Lookup(ev, e) = "undefined" THEN Put(ev, e, <<>>) ELSE ev
  IN IF Lookup(ev1, e) = "inherited"
     THEN [events |-> ev1, threw |-> "TypeError"]
     ELSE [events |-> Put(ev1, e, Append(ev1[e], cb)), threw |-> "none"]

RECURSIVE RemoveFirst(_, _)
RemoveFirst(list, cb) ==
  IF list = <<>> THEN <<>>
  ELSE IF Head(list) = cb THEN Tail(list)
  ELSE <<Head(list)>> \o RemoveFirst(Tail(list), cb)

\* off that removes one occurrence of the callback (splice at indexOf).
OffRunFirstOnly(ev, e, cb) ==
  IF Lookup(ev, e) = "undefined" THEN [events |-> ev, threw |-> "none"]
  ELSE IF Lookup(ev, e) = "inherited" THEN [events |-> ev, threw |-> "TypeError"]
  ELSE LET list == RemoveFirst(ev[e], cb)
       IN [events |-> IF Len(list) = 0 THEN Del(ev, e) ELSE Put(ev, e, list),
           threw |-> "none"]

\* off that keeps the key of an event whose last callback was removed.
OffRunKeepKey(ev, e, cb) ==
  IF Lookup(ev, e) = "undefined" THEN [events |-> ev, threw |-> "none"]
  ELSE IF Lookup(ev, e) = "inherited" THEN [events |-> ev, threw |-> "TypeError"]
  ELSE [events |-> Put(ev, e, Filter(ev[e], cb)), threw |-> "none"]

\* off(event, callback)
OffRun(ev, e, cb) ==
  IF Lookup(ev, e) = "undefined" THEN [events |-> ev, threw |-> "none"]
  ELSE IF Lookup(ev, e) = "inherited" THEN [events |-> ev, threw |-> "TypeError"]
  ELSE LET list == Filter(ev[e], cb)
       IN [events |-> IF Len(list) = 0 THEN Del(ev, e) ELSE Put(ev, e, list),
           threw |-> "none"]

\* getEvents()
GetEvents(ev) == DOMAIN ev

RECURSIVE EmitRun(_, _, _, _), EmitLoop(_, _, _, _, _, _), Invoke(_, _, _, _)

\* The body of one callback, called with data d at nesting depth `depth`.
\* st = [events, log, logged, calls]; the result says whether it threw.
Invoke(cb, d, st, depth) ==
  CASE cb[1] = "thrower" -> [st |-> st, threw |-> TRUE]
    [] cb[1] = "offSelf" ->
         [st |-> [st EXCEPT !.events = OffRun(st.events, TASK_CREATED, cb).events],
          threw |-> FALSE]
    [] cb[1] = "offCb1" ->
         [st |-> [st EXCEPT !.events = OffRun(st.events, TASK_CREATED, Cb("cb1")).events],
          threw |-> FALSE]
    [] cb[1] = "reEmit" ->
         IF d < MaxData
         THEN LET r == EmitRun(TASK_CREATED, d + 1, st, depth + 1)
              IN [st |-> r.st, threw |-> r.threw # "none"]
         ELSE [st |-> st, threw |-> FALSE]
    [] cb[1] = "once" ->
         \* onceCallback: callback(data); this.off(event, onceCallback)
         LET st1 == [st EXCEPT !.calls[cb[4]] = @ + 1]
             r == Invoke(Cb(cb[2]), d, st1, depth)
         IN IF r.threw THEN r
            ELSE LET o == OffRun(r.st.events, cb[3], cb)
                 IN [st |-> [r.st EXCEPT !.events = o.events],
                     threw |-> o.threw # "none"]
    [] OTHER -> [st |-> st, threw |-> FALSE]

\* forEach without the try/catch: the first throwing callback ends the emit.
RECURSIVE EmitLoopNoCatch(_, _, _, _, _, _)
EmitLoopNoCatch(list, i, e, d, st, depth) ==
  IF i > Len(list) THEN [st |-> st, threw |-> "none"]
  ELSE LET st1 == [st EXCEPT !.log = Append(@, <<list[i], d, depth>>)]
           r == Invoke(list[i], d, st1, depth)
       IN IF r.threw THEN [st |-> r.st, threw |-> "CallbackError"]
          ELSE EmitLoopNoCatch(list, i + 1, e, d, r.st, depth)

\* forEach over the array that is registered now instead of the one read
\* when emit started.
RECURSIVE EmitLoopLive(_, _, _, _, _, _)
EmitLoopLive(list, i, e, d, st, depth) ==
  IF e \notin DOMAIN st.events \/ i > Len(st.events[e])
  THEN [st |-> st, threw |-> "none"]
  ELSE LET cur == st.events[e][i]
           st1 == [st EXCEPT !.log = Append(@, <<cur, d, depth>>)]
           r == Invoke(cur, d, st1, depth)
           st2 == IF r.threw
                  THEN [r.st EXCEPT !.logged = Append(@, cur)]
                  ELSE r.st
       IN EmitLoopLive(list, i + 1, e, d, st2, depth)

\* this.events[event].forEach(...) over the array object read at the start:
\* off replaces the array, so the iteration sees the elements 1..Len(list).
\* A throwing callback is caught and logged (console.error); the loop goes on.
EmitLoop(list, i, e, d, st, depth) ==
  IF i > Len(list) THEN [st |-> st, threw |-> "none"]
  ELSE LET st1 == [st EXCEPT !.log = Append(@, <<list[i], d, depth>>)]
           r == Invoke(list[i], d, st1, depth)
           st2 == IF r.threw
                  THEN [r.st EXCEPT !.logged = Append(@, list[i])]
                  ELSE r.st
       IN EmitLoop(list, i + 1, e, d, st2, depth)

\* emit(event, data)
EmitRun(e, d, st, depth) ==
  IF Lookup(st.events, e) = "undefined" THEN [st |-> st, threw |-> "none"]
  ELSE IF Lookup(st.events, e) = "inherited" THEN [st |-> st, threw |-> "TypeError"]
  ELSE EmitLoop(st.events[e], 1, e, d, st, depth)

\* once(event, callback): on(event, onceCallback)
OnceRun(ev, e, cb, n) == OnRun(ev, e, OnceCallback(cb, e, n))

\* clear()
ClearRun(ev) == EmptyEvents

(***************************************************************************)
(* EventBus: state machine                                                 *)
(***************************************************************************)
RECURSIVE SumLen(_, _)
SumLen(ev, keys) ==
  IF keys = {} THEN 0
  ELSE LET k == CHOOSE x \in keys : TRUE
       IN Len(ev[k]) + SumLen(ev, keys \ {k})

TotalSubs(ev) == SumLen(ev, DOMAIN ev)

Op(op, e, cb, d, threw, pre, log, logged, result) ==
  [op |-> op, event |-> e, cb |-> cb, data |-> d, threw |-> threw,
   pre |-> pre, log |-> log, logged |-> logged, result |-> result]

BusInit ==
  /\ events = EmptyEvents
  /\ handle = NoHandle
  /\ onceCount = 0
  /\ onceCalls = [n \in 1..MaxOnce |-> 0]
  /\ lastOp = Op("init", "", NoCb, 0, "none", EmptyEvents, <<>>, <<>>, {})

On(e, cb, keep) ==
  /\ TotalSubs(events) < MaxSubs
  /\ LET r == OnRun(events, e, cb)
     IN /\ events' = r.events
        /\ handle' = IF keep /\ r.threw = "none" THEN Handle(e, cb) ELSE handle
        /\ lastOp' = Op("on", e, cb, 0, r.threw, events, <<>>, <<>>, {})
  /\ UNCHANGED <<onceCount, onceCalls, todoVars, taskVars, uiVars>>

Off(e, cb) ==
  /\ LET r == OffRun(events, e, cb)
     IN /\ events' = r.events
        /\ lastOp' = Op("off", e, cb, 0, r.threw, events, <<>>, <<>>, {})
  /\ UNCHANGED <<handle, onceCount, onceCalls, todoVars, taskVars, uiVars>>

\* Calling the function returned by on(e, cb).
Unsubscribe ==
  /\ handle # NoHandle
  /\ LET r == OffRun(events, handle[1], handle[2])
     IN /\ events' = r.events
        /\ lastOp' = Op("unsubscribe", handle[1], handle[2], 0, r.threw, events,
                        <<>>, <<>>, {})
  /\ UNCHANGED <<handle, onceCount, onceCalls, todoVars, taskVars, uiVars>>

Emit(e, d) ==
  /\ LET r == EmitRun(e, d, [events |-> events, log |-> <<>>, logged |-> <<>>,
                             calls |-> onceCalls], 0)
     IN /\ \A n \in 1..MaxOnce : r.st.calls[n] <= MaxCalls
        /\ events' = r.st.events
        /\ onceCalls' = r.st.calls
        /\ lastOp' = Op("emit", e, NoCb, d, r.threw, events, r.st.log, r.st.logged, {})
  /\ UNCHANGED <<handle, onceCount, todoVars, taskVars, uiVars>>

Once(e, cb) ==
  /\ TotalSubs(events) < MaxSubs
  /\ onceCount < MaxOnce
  /\ LET r == OnceRun(events, e, cb, onceCount + 1)
     IN /\ events' = r.events
        /\ lastOp' = Op("once", e, OnceCallback(cb, e, onceCount + 1), 0, r.threw,
                        events, <<>>, <<>>, {})
  /\ onceCount' = onceCount + 1
  /\ UNCHANGED <<handle, onceCalls, todoVars, taskVars, uiVars>>

Clear ==
  /\ events' = ClearRun(events)
  /\ lastOp' = Op("clear", "", NoCb, 0, "none", events, <<>>, <<>>, {})
  /\ UNCHANGED <<handle, onceCount, onceCalls, todoVars, taskVars, uiVars>>

ListEvents ==
  /\ lastOp' = Op("getEvents", "", NoCb, 0, "none", events, <<>>, <<>>, GetEvents(events))
  /\ UNCHANGED <<events, handle, onceCount, onceCalls, todoVars, taskVars, uiVars>>

(***************************************************************************)
(* TodoList and TodoListEnhanced                                           *)
(***************************************************************************)
Texts == {"a", "b"}

Todo(id, text, completed, createdAt) ==
  [id |-> id, text |-> text, completed |-> completed, createdAt |-> createdAt]

\* crypto.randomUUID() and `temp-${Date.now()}`
Uuid(n) == <<"uuid", n>>
TempId(t) == <<"temp", t>>
NoTodo == Todo(<<"none", 0>>, "", FALSE, 0)

Ids(list) == {list[i].id : i \in 1..Len(list)}

\* A toggle that flips every entry.
MapToggleAll(list, id) ==
  [i \in 1..Len(list) |-> [list[i] EXCEPT !.completed = ~@]]

\* state.map((todo) => todo.id === id ? {...todo, completed: !todo.completed} : todo)
MapToggle(list, id) ==
  [i \in 1..Len(list) |->
     IF list[i].id = id THEN [list[i] EXCEPT !.completed = ~@] ELSE list[i]]

\* A filter that drops the first entry whatever its id.
FilterOutHead(list, id) == IF list = <<>> THEN list ELSE Tail(list)

\* state.filter((todo) => todo.id !== id)
FilterOut(list, id) == SelectSeq(list, LAMBDA t : t.id # id)

\* The reducer with the new entry put last.
ReducerAppend(state, action) ==
  CASE action.type = "add" -> Append(state, action.todo)
    [] action.type = "toggle" -> MapToggle(state, action.id)
    [] action.type = "remove" -> FilterOut(state, action.id)
    [] OTHER -> state

\* The reducer given to useOptimistic.
Reducer(state, action) ==
  CASE action.type = "add" -> <<action.todo>> \o state
    [] action.type = "toggle" -> MapToggle(state, action.id)
    [] action.type = "remove" -> FilterOut(state, action.id)
    [] OTHER -> state

\* OptimisticAction of a flow: what the handler passed to addOptimisticUpdate.
ActionOf(flow) == [type |-> flow.type, todo |-> flow.todo, id |-> flow.todo.id]

\* useOptimistic: the reducer folded over the first n queued updates, on
\* top of the current todos.
\* An overlay that keeps only the newest update.
ApplyLastOnly(state, queue, n) ==
  IF n = 0 \/ ~queue[n].shown THEN state
  ELSE Reducer(state, ActionOf(queue[n]))

\* An overlay that applies the queue from its last update back to its first.
RECURSIVE ApplyReversed(_, _, _)
ApplyReversed(state, queue, n) ==
  IF n = 0 THEN state
  ELSE IF queue[n].shown
       THEN ApplyReversed(Reducer(state, ActionOf(queue[n])), queue, n - 1)
       ELSE ApplyReversed(state, queue, n - 1)

\* useOptimistic: the reducer is applied to the confirmed list for each
\* queued update, oldest first
\* (an update that was never dispatched is not in the queue).
RECURSIVE Apply(_, _, _)
Apply(state, queue, n) ==
  IF n = 0 THEN state
  ELSE IF queue[n].shown
       THEN Reducer(Apply(state, queue, n - 1), ActionOf(queue[n]))
       ELSE Apply(state, queue, n - 1)

optimisticTodos == Apply(todos, pending, Len(pending))

\* setTodos((prev) => [newTodo, ...prev])
Prepend(newTodo, prev) == <<newTodo>> \o prev

\* A replacement that appends the updated entry when no entry has its id.
ReplaceOrAppend(prev, updatedTodo) ==
  IF updatedTodo.id \in Ids(prev)
  THEN [i \in 1..Len(prev) |-> IF prev[i].id = updatedTodo.id THEN updatedTodo ELSE prev[i]]
  ELSE Append(prev, updatedTodo)

\* setTodos((prev) => prev.map((t) => (t.id === updatedTodo.id ? updatedTodo : t)))
Replace(prev, updatedTodo) ==
  [i \in 1..Len(prev) |-> IF prev[i].id = updatedTodo.id THEN updatedTodo ELSE prev[i]]

\* The simulated latency of the asynchronous operation of a flow.
Delay(type) == IF type = "add" THEN 500 ELSE 300

\* A handler that starts the asynchronous operation without dispatching the
\* optimistic update first.
FlowNotShown(type, todo) ==
  [type |-> type, todo |-> todo, status |-> "issued", shown |-> FALSE]

\* One call of a handler: addOptimisticUpdate(action), then
\* startTransition(async () => ...) that issues the asynchronous operation.
Flow(type, todo) ==
  [type |-> type, todo |-> todo, status |-> "issued", shown |-> TRUE]

\* Timers that fire in any order.
CanSettleAnyOrder(i) ==
  /\ i \in 1..Len(pending)
  /\ pending[i].status = "issued"

\* The timer of flow i can fire now: a timer set earlier with the same or a
\* shorter delay has fired before it (pending is in the order of issue).
CanSettle(i) ==
  /\ i \in 1..Len(pending)
  /\ pending[i].status = "issued"
  /\ \A j \in 1..(i - 1) :
       ~(pending[j].status = "issued" /\ Delay(pending[j].type) <= Delay(pending[i].type))

\* Optimistic updates that are dropped only when a single action was queued.
SettleSingle(queue, i) ==
  IF Len(queue) = 1 THEN <<>> ELSE [queue EXCEPT ![i].status = "settled"]

\* A transition whose end never drops the optimistic updates.
SettleKeep(queue, i) == [queue EXCEPT ![i].status = "settled"]

\* The optimistic updates are dropped when no asynchronous action is left.
Settle(queue, i) ==
  LET q == [queue EXCEPT ![i].status = "settled"]
  IN IF \A j \in 1..Len(q) : q[j].status = "settled" THEN <<>> ELSE q

TodoOp(op, todo) == [op |-> op, todo |-> todo]

TodoInit ==
  /\ todos = <<>>
  /\ pending = <<>>
  /\ basic = <<>>
  /\ nextId = 1
  /\ now = 0
  /\ issued = 0
  /\ lastTodo = TodoOp("init", NoTodo)

\* TodoList.addTodo
addTodo(text) ==
  /\ nextId <= MaxOps
  /\ LET newTodo == Todo(Uuid(nextId), text, FALSE, now)
     IN /\ basic' = Prepend(newTodo, basic)
        /\ lastTodo' = TodoOp("addTodo", newTodo)
  /\ nextId' = nextId + 1
  /\ UNCHANGED <<todos, pending, now, issued, busVars, taskVars, uiVars>>

\* TodoList.toggleTodo
toggleTodo(id) ==
  /\ basic' = MapToggle(basic, id)
  /\ lastTodo' = TodoOp("toggleTodo", [NoTodo EXCEPT !.id = id])
  /\ UNCHANGED <<todos, pending, nextId, now, issued, busVars, taskVars, uiVars>>

\* TodoList.removeTodo
removeTodo(id) ==
  /\ basic' = FilterOut(basic, id)
  /\ lastTodo' = TodoOp("removeTodo", [NoTodo EXCEPT !.id = id])
  /\ UNCHANGED <<todos, pending, nextId, now, issued, busVars, taskVars, uiVars>>

\* TodoListEnhanced.handleAddTodo, up to the await
handleAddTodo(text) ==
  /\ issued < MaxOps
  /\ issued' = issued + 1
  /\ LET optimisticTodo == Todo(TempId(now), text, FALSE, now)
     IN /\ pending' = Append(pending, Flow("add", optimisticTodo))
        /\ lastTodo' = TodoOp("handleAddTodo", optimisticTodo)
  /\ UNCHANGED <<todos, basic, nextId, now, busVars, taskVars, uiVars>>

\* TodoListEnhanced.handleToggleTodo, up to the await
handleToggleTodo(todo) ==
  /\ issued < MaxOps
  /\ issued' = issued + 1
  /\ pending' = Append(pending, Flow("toggle", todo))
  /\ lastTodo' = TodoOp("handleToggleTodo", todo)
  /\ UNCHANGED <<todos, basic, nextId, now, busVars, taskVars, uiVars>>

\* TodoListEnhanced.handleRemoveTodo, up to the await
handleRemoveTodo(id) ==
  /\ issued < MaxOps
  /\ issued' = issued + 1
  /\ pending' = Append(pending, Flow("remove", [NoTodo EXCEPT !.id = id]))
  /\ lastTodo' = TodoOp("handleRemoveTodo", [NoTodo EXCEPT !.id = id])
  /\ UNCHANGED <<todos, basic, nextId, now, busVars, taskVars, uiVars>>

\* What the asynchronous action of a flow resolves to: addTodoAction builds a
\* new todo, toggleTodoAction returns {...todo, completed: !todo.completed},
\* removeTodoAction returns the id.
Resolved(flow, n, t) ==
  CASE flow.type = "add" -> Todo(Uuid(n), flow.todo.text, FALSE, t)
    [] flow.type = "toggle" -> [flow.todo EXCEPT !.completed = ~@]
    [] OTHER -> flow.todo

\* The setTodos call that follows the await of a flow.
Commit(list, flow, n, t) ==
  CASE flow.type = "add" -> Prepend(Resolved(flow, n, t), list)
    [] flow.type = "toggle" -> Replace(list, Resolved(flow, n, t))
    [] flow.type = "remove" -> FilterOut(list, flow.todo.id)
    [] OTHER -> list

\* handleAddTodo after `await addTodoAction(text)`
addTodoSettled(i) ==
  /\ CanSettle(i)
  /\ pending[i].type = "add"
  /\ todos' = Commit(todos, pending[i], nextId, now)
  /\ lastTodo' = TodoOp("addTodoSettled", Resolved(pending[i], nextId, now))
  /\ pending' = Settle(pending, i)
  /\ nextId' = nextId + 1
  /\ UNCHANGED <<basic, now, issued, busVars, taskVars, uiVars>>

\* handleToggleTodo after `await toggleTodoAction(todo)`
toggleTodoSettled(i) ==
  /\ CanSettle(i)
  /\ pending[i].type = "toggle"
  /\ todos' = Commit(todos, pending[i], nextId, now)
  /\ lastTodo' = TodoOp("toggleTodoSettled", Resolved(pending[i], nextId, now))
  /\ pending' = Settle(pending, i)
  /\ UNCHANGED <<basic, nextId, now, issued, busVars, taskVars, uiVars>>

\* handleRemoveTodo after `await removeTodoAction(id)`
removeTodoSettled(i) ==
  /\ CanSettle(i)
  /\ pending[i].type = "remove"
  /\ todos' = Commit(todos, pending[i], nextId, now)
  /\ lastTodo' = TodoOp("removeTodoSettled", Resolved(pending[i], nextId, now))
  /\ pending' = Settle(pending, i)
  /\ UNCHANGED <<basic, nextId, now, issued, busVars, taskVars, uiVars>>

\* The catch branch of a handler: the awaited operation rejected.
todoRejected(i) ==
  /\ CanSettle(i)
  /\ lastTodo' = TodoOp("todoRejected", pending[i].todo)
  /\ pending' = Settle(pending, i)
  /\ UNCHANGED <<todos, basic, nextId, now, issued, busVars, taskVars, uiVars>>

\* Date.now() advances
Tick ==
  /\ now < MaxTime
  /\ now' = now + 1
  /\ lastTodo' = TodoOp("tick", NoTodo)
  /\ UNCHANGED <<todos, pending, basic, nextId, issued, busVars, taskVars, uiVars>>

(***************************************************************************)
(* TodoList / TodoListEnhanced: the filter and the counts                  *)
(***************************************************************************)
Filters == {"all", "active", "completed"}

\* A filter that shows the completed todos under 'active'.
FilteredTodosSwapped(list, f) ==
  SelectSeq(list, LAMBDA todo :
    IF f = "active" THEN todo.completed
    ELSE IF f = "completed" THEN ~todo.completed
    ELSE TRUE)

\* todos.filter(...) by the selected filter
FilteredTodos(list, f) ==
  SelectSeq(list, LAMBDA todo :
    IF f = "active" THEN ~todo.completed
    ELSE IF f = "completed" THEN todo.completed
    ELSE TRUE)

activeCount(list) == Len(SelectSeq(list, LAMBDA t : ~t.completed))
completedCount(list) == Len(SelectSeq(list, LAMBDA t : t.completed))

FilterInit == filter = "all"

\* onFilterChange={setFilter}
setFilter(f) ==
  /\ filter' = f
  /\ UNCHANGED <<busVars, todoVars, taskVars, routerVars, eventVars, activityVars>>

NextBasic ==
  \/ \E text \in Texts : addTodo(text)
  \/ \E id \in Ids(basic) : toggleTodo(id)
  \/ \E id \in Ids(basic) : removeTodo(id)
  \/ \E f \in Filters : setFilter(f)
  \/ Tick

NextTodo ==
  \/ \E text \in Texts : handleAddTodo(text)
  \/ \E i \in 1..Len(optimisticTodos) : handleToggleTodo(optimisticTodos[i])
  \/ \E id \in Ids(optimisticTodos) : handleRemoveTodo(id)
  \/ \E i \in 1..Len(pending) : addTodoSettled(i)
  \/ \E i \in 1..Len(pending) : toggleTodoSettled(i)
  \/ \E i \in 1..Len(pending) : removeTodoSettled(i)
  \/ \E i \in 1..Len(pending) : todoRejected(i)
  \/ Tick

(***************************************************************************)
(* The tasks feature: TaskInput, TaskList, taskService, TasksFeature       *)
(***************************************************************************)
\* A title is a string of these characters.
Space == " "
Letter == "a"

\* What the user may have typed in the title field.
RawTitles == {<<>>, <<Space>>, <<Letter>>, <<Space, Letter>>, <<Letter, Space>>}

\* A trim that leaves the string as it is.
TrimNothing(str) == str

\* String.prototype.trim
RECURSIVE TrimStart(_)
TrimStart(str) ==
  IF str # <<>> /\ Head(str) = Space THEN TrimStart(Tail(str)) ELSE str

RECURSIVE TrimEnd(_)
TrimEnd(str) ==
  IF str # <<>> /\ str[Len(str)] = Space
  THEN TrimEnd(SubSeq(str, 1, Len(str) - 1))
  ELSE str

Trim(str) == TrimEnd(TrimStart(str))

\* A field that the object does not have.
UndefinedTitle == <<"undefined">>
UndefinedPriority == "undefined"
UndefinedTime == 0 - 1

Priorities == {"low", "medium", "high"}

Task(id, title, completed, priority, createdAt, updatedAt) ==
  [id |-> id, title |-> title, completed |-> completed, priority |-> priority,
   createdAt |-> createdAt, updatedAt |-> updatedAt]

TaskId(n) == <<"task", n>>

NoTask == Task(<<"none", 0>>, UndefinedTitle, FALSE, UndefinedPriority, UndefinedTime, UndefinedTime)

\* createTask: the object built after the delay
NewTask(n, title, t) == Task(TaskId(n), title, FALSE, "medium", t, t)

\* toggleTask -> updateTask(task.id, {completed: !task.completed}):
\* {id, ...updates, updatedAt: Date.now()} as Task
UpdatedTask(task, completed, t) ==
  Task(task.id, UndefinedTitle, completed, UndefinedPriority, UndefinedTime, t)

\* delay(500) in createTask, delay(300) in updateTask and deleteTask
TaskDelay(type) == IF type = "create" THEN 500 ELSE 300

\* One asynchronous operation of the tasks feature.
TaskFlow(type, task) == [type |-> type, task |-> task, status |-> "issued"]

TaskCanSettle(i) ==
  /\ i \in 1..Len(inflight)
  /\ inflight[i].status = "issued"
  /\ \A j \in 1..(i - 1) :
        ~(inflight[j].status = "issued"
          /\ TaskDelay(inflight[j].type) <= TaskDelay(inflight[i].type))

\* The operations still in flight once operation i has settled.
TaskSettle(queue, i) ==
  LET q == [queue EXCEPT ![i].status = "settled"]
  IN SelectSeq(q, LAMBDA f : f.status = "issued")

TaskOp(op, task) == [op |-> op, task |-> task]

\* An event passed to eventBus.emit by the task service.
TaskEvent(name, payload) == [name |-> name, payload |-> payload]

\* A service that emits task:updated whatever it did.
EventNameAlwaysUpdated(type) == TASK_UPDATED

\* The event name each operation of the service emits.
EventNameOf(type) ==
  CASE type = "create" -> TASK_CREATED
    [] type = "toggle" -> TASK_UPDATED
    [] OTHER -> TASK_DELETED

TaskInit ==
  /\ tasks = <<>>
  /\ inflight = <<>>
  /\ formState = "initial"
  /\ lastTask = TaskOp("init", NoTask)
  /\ emitted = <<>>

\* TaskInput: the form action up to its await
submitAction(title) ==
  /\ issued < MaxTaskOps
  /\ issued' = issued + 1
  /\ lastTask' = TaskOp("submitAction", [NoTask EXCEPT !.title = title])
  /\ IF Trim(title) = <<>>
     THEN /\ formState' = "Task title is required"
          /\ UNCHANGED inflight
     ELSE /\ inflight' = Append(inflight, TaskFlow("create", [NoTask EXCEPT !.title = Trim(title)]))
          /\ UNCHANGED formState
  /\ UNCHANGED <<tasks, emitted, todos, pending, basic, nextId, now, lastTodo, busVars, uiVars>>

\* createTask resolves; onTaskCreated(task) -> setTasks(prev => [task, ...prev])
createTaskSettled(i) ==
  /\ TaskCanSettle(i)
  /\ inflight[i].type = "create"
  /\ LET task == NewTask(nextId, inflight[i].task.title, now)
     IN /\ emitted' = Append(emitted, TaskEvent(EventNameOf("create"), task))
        /\ tasks' = Prepend(task, tasks)
        /\ lastTask' = TaskOp("createTaskSettled", task)
  /\ formState' = "success"
  /\ inflight' = TaskSettle(inflight, i)
  /\ nextId' = nextId + 1
  /\ UNCHANGED <<todos, pending, basic, now, issued, lastTodo, busVars, uiVars>>

\* TasksFeature.handleToggle up to its await (TaskCard passes the task it shows)
handleToggle(task) ==
  /\ issued < MaxTaskOps
  /\ issued' = issued + 1
  /\ inflight' = Append(inflight, TaskFlow("toggle", task))
  /\ lastTask' = TaskOp("handleToggle", task)
  /\ UNCHANGED <<tasks, formState, emitted, todos, pending, basic, nextId, now, lastTodo, busVars, uiVars>>

\* toggleTask resolves; setTasks(prev => prev.map(t => t.id === updated.id ? updated : t))
toggleTaskSettled(i) ==
  /\ TaskCanSettle(i)
  /\ inflight[i].type = "toggle"
  /\ LET updated == UpdatedTask(inflight[i].task, ~inflight[i].task.completed, now)
     IN /\ emitted' = Append(emitted, TaskEvent(EventNameOf("toggle"), updated))
        /\ tasks' = Replace(tasks, updated)
        /\ lastTask' = TaskOp("toggleTaskSettled", updated)
  /\ inflight' = TaskSettle(inflight, i)
  /\ UNCHANGED <<formState, todos, pending, basic, nextId, now, issued, lastTodo, busVars, uiVars>>

\* TasksFeature.handleDelete up to its await
handleDelete(id) ==
  /\ issued < MaxTaskOps
  /\ issued' = issued + 1
  /\ inflight' = Append(inflight, TaskFlow("delete", [NoTask EXCEPT !.id = id]))
  /\ lastTask' = TaskOp("handleDelete", [NoTask EXCEPT !.id = id])
  /\ UNCHANGED <<tasks, formState, emitted, todos, pending, basic, nextId, now, lastTodo, busVars, uiVars>>

\* deleteTask resolves; setTasks(prev => prev.filter(t => t.id !== id))
deleteTaskSettled(i) ==
  /\ TaskCanSettle(i)
  /\ inflight[i].type = "delete"
  /\ emitted' = Append(emitted, TaskEvent(EventNameOf("delete"), inflight[i].task))
  /\ tasks' = FilterOut(tasks, inflight[i].task.id)
  /\ lastTask' = TaskOp("deleteTaskSettled", inflight[i].task)
  /\ inflight' = TaskSettle(inflight, i)
  /\ UNCHANGED <<formState, todos, pending, basic, nextId, now, issued, lastTodo, busVars, uiVars>>

NextTask ==
  \/ \E title \in RawTitles : submitAction(title)
  \/ \E i \in 1..Len(tasks) : handleToggle(tasks[i])
  \/ \E i \in 1..Len(tasks) : handleDelete(tasks[i].id)
  \/ \E i \in 1..Len(inflight) : createTaskSettled(i)
  \/ \E i \in 1..Len(inflight) : toggleTaskSettled(i)
  \/ \E i \in 1..Len(inflight) : deleteTaskSettled(i)
  \/ Tick

(***************************************************************************)
(* Router                                                                  *)
(***************************************************************************)
\* The route lists a Router is given (their paths, in order), and the
\* default routes: 'tasks' is not a path of the first list.
RouteLists == {<<"home", "about">>, <<"about", "tasks", "home">>}
DefaultRoutes == {"home", "tasks"}

\* A router that always renders its first route.
activeRouteFirst == routes[1]

\* routes.find((r) => r.path === currentRoute) || routes[0]
activeRoute ==
  IF \E i \in 1..Len(routes) : routes[i] = currentRoute
  THEN currentRoute
  ELSE routes[1]

\* The buttons rendered with aria-current="page".
ActiveButtons == {i \in 1..Len(routes) : currentRoute = routes[i]}

\* useState<Route>(defaultRoute) of a Router given rs and d
RouterInit(rs, d) ==
  /\ routes = rs
  /\ defaultRoute = d
  /\ currentRoute = d

\* onClick={() => setCurrentRoute(route.path)}
setCurrentRoute(i) ==
  /\ i \in 1..Len(routes)
  /\ currentRoute' = routes[i]
  /\ UNCHANGED <<routes, defaultRoute, filter, eventVars, activityVars,
                 busVars, todoVars, taskVars>>

(***************************************************************************)
(* useEffectEvent                                                          *)
(***************************************************************************)
Handlers == {"handler1", "handler2"}

\* The function object created by the n-th render.
Fn(n) == <<"fn", n>>

\* A useCallback that returns the function of the current render.
UseCallbackFresh(memo, n) == Fn(n)

\* useCallback(fn, []): the function memoized at the first render
UseCallback(memo, n) == memo

\* A layout effect that leaves the ref as it is.
LayoutEffectSkipped(ref, h) == ref

\* useLayoutEffect(() => { handlerRef.current = handler; })
LayoutEffect(ref, h) == h

Call(h, n) == [handler |-> h, render |-> n]

\* The first render: useRef(handler), the layout effect, useCallback
EventInit ==
  /\ handler = "handler1"
  /\ handlerRef = "handler1"
  /\ stableFn = Fn(1)
  /\ renders = 1
  /\ lastCall = Call("none", 0)

\* A re-render with the handler h, and its layout effect
rerender(h) ==
  /\ renders < MaxRenders
  /\ renders' = renders + 1
  /\ handler' = h
  /\ handlerRef' = LayoutEffect(handlerRef, h)
  /\ stableFn' = UseCallback(stableFn, renders + 1)
  /\ UNCHANGED <<lastCall, filter, routerVars, activityVars, busVars, todoVars, taskVars>>

\* The returned function is called: handlerRef.current(...args)
callEvent ==
  /\ lastCall' = Call(handlerRef, renders)
  /\ UNCHANGED <<handler, handlerRef, stableFn, renders, filter, routerVars,
                 activityVars, busVars, todoVars, taskVars>>

(***************************************************************************)
(* ActivityDemo                                                            *)
(***************************************************************************)
Views == {"home", "profile", "settings"}

ActivityInit ==
  /\ activeViewId = "home"
  /\ closureViewId = "home"
  /\ viewStates = [v \in Views |-> IF v = "home" THEN "visible" ELSE "warm"]

\* switchView(viewId), with the activeViewId of the render that made it
switchView(viewId) ==
  /\ viewStates' = [viewStates EXCEPT ![closureViewId] = "warm", ![viewId] = "visible"]
  /\ activeViewId' = viewId
  /\ UNCHANGED <<closureViewId, filter, routerVars, eventVars, busVars, todoVars, taskVars>>

\* The component renders again: switchView is made with the new activeViewId
renderActivity ==
  /\ closureViewId # activeViewId
  /\ closureViewId' = activeViewId
  /\ UNCHANGED <<activeViewId, viewStates, filter, routerVars, eventVars,
                 busVars, todoVars, taskVars>>

\* The components outside the lists and the bus, with the router of the
\* Router test: home and about, default home.
UiInit ==
  /\ FilterInit
  /\ RouterInit(<<"home", "about">>, "home")
  /\ EventInit
  /\ ActivityInit

\* The same with any of the route lists and default routes.
UiPropsInit ==
  /\ BusInit
  /\ TodoInit
  /\ TaskInit
  /\ FilterInit
  /\ \E rs \in RouteLists, d \in DefaultRoutes : RouterInit(rs, d)
  /\ EventInit
  /\ ActivityInit

NextUi ==
  \/ \E i \in 1..Len(routes) : setCurrentRoute(i)
  \/ \E h \in Handlers : rerender(h)
  \/ callEvent
  \/ \E v \in Views : switchView(v)
  \/ renderActivity

Init == BusInit /\ TodoInit /\ TaskInit /\ UiInit

\* The confirmed lists the overlay is explored on: no entry, one completed
\* entry, and an active entry added after a completed one (newest first).
OverlayLists ==
  {<<>>,
   <<Todo(Uuid(1), "a", TRUE, 0)>>,
   <<Todo(Uuid(2), "b", FALSE, 0), Todo(Uuid(1), "a", TRUE, 0)>>}

OverlayInit ==
  /\ BusInit
  /\ todos \in OverlayLists
  /\ pending = <<>>
  /\ basic = <<>>
  /\ nextId = Len(todos) + 1
  /\ now = 0
  /\ issued = 0
  /\ lastTodo = TodoOp("init", NoTodo)
  /\ TaskInit
  /\ UiInit

Next ==
  \/ \E e \in EventNames : \E cb \in CallbacksFor(e), keep \in BOOLEAN : On(e, cb, keep)
  \/ \E e \in EventNames : \E cb \in CallbacksFor(e) : Off(e, cb)
  \/ Unsubscribe
  \/ \E e \in EventNames, d \in Data : Emit(e, d)
  \/ Clear
  \/ ListEvents

Spec == Init /\ [][Next]_vars

\* The bus with once(): every operation, fewer callback bodies.
OnceKinds == {"cb1", "thrower", "reEmit"}
OnceCallbacks == {Cb(k) : k \in OnceKinds}
OnceNames == {"", TASK_CREATED}

NextOnce ==
  \/ \E e \in OnceNames, cb \in OnceCallbacks : On(e, cb, FALSE)
  \/ \E e \in OnceNames, cb \in OnceCallbacks : Once(e, cb)
  \/ \E e \in OnceNames, cb \in OnceCallbacks : Off(e, cb)
  \/ \E e \in OnceNames, d \in Data : Emit(e, d)
  \/ Clear
  \/ ListEvents

OnceSpec == Init /\ [][NextOnce]_vars

TodoSpec == Init /\ [][NextTodo]_vars

\* The timer of an issued operation fires: its promise resolves or rejects.
OperationCompletes ==
  \E i \in 1..Len(pending) :
    \/ addTodoSettled(i)
    \/ toggleTodoSettled(i)
    \/ removeTodoSettled(i)
    \/ todoRejected(i)

\* TodoListEnhanced where every setTimeout that was set eventually fires.
TodoFairSpec == Init /\ [][NextTodo]_vars /\ WF_vars(OperationCompletes)

\* An entry that is in no list: a target that matches nothing.
AbsentTodo == Todo(Uuid(3), "b", FALSE, 0)

\* The overlay alone: optimistic updates are dispatched on a confirmed list
\* and nothing settles.  A toggle or a remove may target an entry that is
\* shown or one that is already gone.
OverlayTargets == {optimisticTodos[i] : i \in 1..Len(optimisticTodos)} \cup {AbsentTodo}

NextOverlay ==
  \/ \E text \in Texts : handleAddTodo(text)
  \/ \E todo \in OverlayTargets : handleToggleTodo(todo)
  \/ \E todo \in OverlayTargets : handleRemoveTodo(todo.id)
  \/ Tick

OverlaySpec == OverlayInit /\ [][NextOverlay]_vars

TaskSpec == Init /\ [][NextTask]_vars

UiSpec == UiPropsInit /\ [][NextUi]_vars

BasicSpec == Init /\ [][NextBasic]_vars

(***************************************************************************)
(* EventBus: properties                                                    *)
(***************************************************************************)
Range(seq) == {seq[i] : i \in 1..Len(seq)}

\* The calls a log records for the outermost emit: <<callback, data>>.
TopCalls(log) ==
  LET top == SelectSeq(log, LAMBDA x : x[3] = 0)
  IN [i \in 1..Len(top) |-> <<top[i][1], top[i][2]>>]

TopCbs(log) == [i \in 1..Len(TopCalls(log)) |-> TopCalls(log)[i][1]]

\* The callbacks registered for e, in the order the registry holds them.
Registered(ev, e) == IF e \in DOMAIN ev THEN ev[e] ELSE <<>>

\* The callbacks emit(e, d) would invoke from registry ev, in order.
EmitOrder(ev, e, d) ==
  TopCbs(EmitRun(e, d, [events |-> ev, log |-> <<>>, logged |-> <<>>,
                        calls |-> [n \in 1..MaxOnce |-> 0]], 0).st.log)

\* C1: emit(e, d) invokes every callback registered for e exactly once with
\* d, throwing callbacks included, and no callback's exception leaves emit.
EmitIsolatesFaults ==
  lastOp.op = "emit" =>
    /\ lastOp.threw # "CallbackError"
    /\ TopCalls(lastOp.log) =
         [i \in 1..Len(Registered(lastOp.pre, lastOp.event)) |->
            <<Registered(lastOp.pre, lastOp.event)[i], lastOp.data>>]
    /\ \A i \in 1..Len(lastOp.logged) : lastOp.logged[i][1] \in {"thrower", "once"}

\* C1 witness: an emit whose first subscriber threw and whose second was
\* still invoked.
EmitIsolatesFaultsWitness ==
  /\ lastOp.op = "emit"
  /\ Len(TopCalls(lastOp.log)) = 2
  /\ lastOp.log[1][1] = Cb("thrower")
  /\ Len(lastOp.logged) >= 1

\* C2: emit invokes the callbacks of an event in the order of their on
\* calls: a new registration is invoked after all earlier ones, whose order
\* stays, and an emit that leaves the subscribers alone is repeated alike.
PublishOrder ==
  /\ (lastOp.op = "on" /\ lastOp.threw = "none") =>
        \A d \in Data :
           EmitOrder(events, lastOp.event, d) =
             Append(EmitOrder(lastOp.pre, lastOp.event, d), lastOp.cb)
  /\ (lastOp.op = "emit" /\ lastOp.pre = events) =>
        EmitOrder(events, lastOp.event, lastOp.data) = TopCbs(lastOp.log)

\* C2 witness: two different callbacks of one event, just invoked by emit.
PublishOrderWitness ==
  /\ lastOp.op = "emit"
  /\ lastOp.pre = events
  /\ Len(Registered(events, lastOp.event)) = 2
  /\ Registered(events, lastOp.event)[1] # Registered(events, lastOp.event)[2]
  /\ TopCbs(lastOp.log) = Registered(events, lastOp.event)

\* C3 as stated: the handle removes one registration, every other
\* registration (also another one of the same callback) stays.
HandleRemovesOneRegistration ==
  lastOp.op = "unsubscribe" =>
    LET old == Registered(lastOp.pre, lastOp.event)
        new == Registered(events, lastOp.event)
    IN /\ lastOp.cb \in Range(old) =>
            \E i \in 1..Len(old) :
               /\ old[i] = lastOp.cb
               /\ new = SubSeq(old, 1, i - 1) \o SubSeq(old, i + 1, Len(old))
       /\ lastOp.cb \notin Range(old) => new = old
       /\ \A e \in EventNames \ {lastOp.event} :
            Registered(events, e) = Registered(lastOp.pre, e)

\* C3 amended: the handle removes every registration of cb for e; the
\* registrations of other callbacks and of other events stay, in order.
HandleRemovesCallback ==
  lastOp.op = "unsubscribe" =>
    LET old == Registered(lastOp.pre, lastOp.event)
        new == Registered(events, lastOp.event)
    IN /\ lastOp.threw = "none"
       /\ new = SelectSeq(old, LAMBDA x : x # lastOp.cb)
       /\ \A d \in Data : lastOp.cb \notin Range(EmitOrder(events, lastOp.event, d))
       /\ \A e \in EventNames \ {lastOp.event} :
            Registered(events, e) = Registered(lastOp.pre, e)
       /\ (Len(new) = 0) = (lastOp.event \notin GetEvents(events))

\* C3 witness: the handle of a callback registered twice was invoked.
HandleRemovesCallbackWitness ==
  /\ lastOp.op = "unsubscribe"
  /\ Len(Registered(lastOp.pre, lastOp.event)) = 2
  /\ Range(Registered(lastOp.pre, lastOp.event)) = {lastOp.cb}
  /\ lastOp.event \notin GetEvents(events)

\* C4: off never throws, a second off changes nothing more, and the
\* registrations of other callbacks and events stay.
OffIdempotent ==
  lastOp.op = "off" =>
    /\ lastOp.threw = "none"
    /\ OffRun(events, lastOp.event, lastOp.cb).events = events
    /\ \A e \in EventNames :
         SelectSeq(Registered(events, e), LAMBDA x : x # lastOp.cb) =
         SelectSeq(Registered(lastOp.pre, e), LAMBDA x : x # lastOp.cb)

\* C5: the callback given to once is invoked at most once.
OnceAtMostOnce == \A n \in 1..MaxOnce : onceCalls[n] <= 1

\* C6: an emit during which subscribers are removed still invokes every
\* subscriber that stays registered once, in registration order.
EmitSurvivesOff ==
  (lastOp.op = "emit" /\ lastOp.event \in DOMAIN lastOp.pre) =>
    LET stays == Range(Registered(events, lastOp.event))
    IN /\ lastOp.threw = "none"
       /\ SelectSeq(TopCbs(lastOp.log), LAMBDA x : x \in stays) =
          SelectSeq(lastOp.pre[lastOp.event], LAMBDA x : x \in stays)

\* C6 witness: the first of two subscribers removed itself during the emit
\* and the second one was invoked.
EmitSurvivesOffWitness ==
  /\ lastOp.op = "emit"
  /\ lastOp.event = TASK_CREATED
  /\ Len(Registered(lastOp.pre, TASK_CREATED)) = 2
  /\ lastOp.pre[TASK_CREATED][1] = Cb("offSelf")
  /\ Registered(events, TASK_CREATED) = <<lastOp.pre[TASK_CREATED][2]>>
  /\ lastOp.pre[TASK_CREATED][2] \in Range(TopCbs(lastOp.log))

\* C7 as stated: on with the empty name registers nothing.
EmptyNameIsNoOp ==
  (lastOp.op = "on" /\ lastOp.event = "") =>
    /\ lastOp.threw = "none"
    /\ "" \notin GetEvents(events)
    /\ \A d \in Data : EmitOrder(events, "", d) = <<>>

\* C7 amended: on with the empty name does not throw and registers the
\* callback like under any other name.
EmptyNameRegisters ==
  (lastOp.op = "on" /\ lastOp.event = "") =>
    /\ lastOp.threw = "none"
    /\ "" \in GetEvents(events)
    /\ \A d \in Data :
         EmitOrder(events, "", d) = Append(EmitOrder(lastOp.pre, "", d), lastOp.cb)

\* C7 witness: on("", cb) on a bus that had no subscriber of "".
EmptyNameRegistersWitness ==
  /\ lastOp.op = "on"
  /\ lastOp.event = ""
  /\ "" \notin DOMAIN lastOp.pre
  /\ Registered(events, "") = <<lastOp.cb>>

\* C8: no operation of the bus throws, whatever the event name.
NeverThrows == lastOp.threw = "none"

\* C9: getEvents() lists exactly the names emit has a callback for, and
\* nothing after clear().
ListsActiveEvents ==
  /\ \A e \in EventNames :
       (e \in GetEvents(events)) <=> (Len(Registered(events, e)) > 0)
  /\ \A e \in EventNames :
       (e \in GetEvents(events)) <=> (\A d \in Data : EmitOrder(events, e, d) # <<>>)
  /\ lastOp.op = "clear" => GetEvents(events) = {}
  /\ lastOp.op = "getEvents" => lastOp.result = GetEvents(events)

\* C9 witness: an emit removed the last callback of an event (a once
\* callback) and the name left the list while another name stayed.
ListsActiveEventsWitness ==
  /\ lastOp.op = "emit"
  /\ lastOp.event \in GetEvents(lastOp.pre)
  /\ lastOp.event \notin GetEvents(events)
  /\ GetEvents(events) # {}

\* C26: once an emit that invoked a callback registered with once has
\* returned, that registration is gone, also when the callback threw.
OnceRemovedAfterEmit ==
  lastOp.op = "emit" =>
    \A c \in Range(TopCbs(lastOp.log)) :
      c[1] = "once" => c \notin Range(Registered(events, lastOp.event))

(***************************************************************************)
(* Todo lists: properties                                                  *)
(***************************************************************************)
IsNewTodo(t, kind) ==
  /\ t.id[1] = kind
  /\ t.text \in Texts
  /\ t.completed = FALSE

Others(list, id) == {i \in 1..Len(list) : list[i].id # id}

\* The k-th position, in increasing order, of a set of positions.
Nth(positions, k) ==
  CHOOSE i \in positions : Cardinality({j \in positions : j <= i}) = k

\* C11: a pending toggle with target T flips the completed flag of the entry
\* with id T of the apparent list (a confirmed entry or an earlier pending add)
\* and leaves every other entry, every other field, the length and the order
\* as they were; when no entry has id T the apparent list is unchanged and no
\* entry T appears; the confirmed list is not modified.
ToggleFlipsTarget ==
  [][lastTodo'.op = "handleToggleTodo" =>
       LET T == lastTodo'.todo.id
           before == optimisticTodos
           after == optimisticTodos'
       IN /\ todos' = todos
          /\ Len(after) = Len(before)
          /\ \A i \in 1..Len(before) :
                /\ after[i].id = before[i].id
                /\ after[i].text = before[i].text
                /\ after[i].createdAt = before[i].createdAt
                /\ after[i].completed =
                     IF before[i].id = T THEN ~before[i].completed
                     ELSE before[i].completed
          /\ (T \notin Ids(before)) => after = before]_vars

\* C11 witness: the last pending action is a toggle of an entry added by an
\* earlier pending add, on an apparent list that also shows a confirmed entry
\* that is completed.
ToggleFlipsTargetWitness ==
  /\ lastTodo.op = "handleToggleTodo"
  /\ Len(pending) = 2
  /\ pending[1].type = "add"
  /\ pending[2].type = "toggle"
  /\ pending[2].todo.id = pending[1].todo.id
  /\ Len(todos) >= 1
  /\ todos[1].completed
  /\ optimisticTodos = <<[pending[1].todo EXCEPT !.completed = TRUE]>> \o todos

\* C12: a pending remove with target T yields the apparent list without the
\* entries of id T, the other entries unchanged and in the same order; when no
\* entry has id T the list is unchanged.
RemoveDropsTarget ==
  [][lastTodo'.op = "handleRemoveTodo" =>
       LET T == lastTodo'.todo.id
           before == optimisticTodos
           after == optimisticTodos'
           keep == Others(before, T)
       IN /\ Len(after) = Cardinality(keep)
          /\ \A k \in 1..Len(after) : after[k] = before[Nth(keep, k)]
          /\ (T \notin Ids(before)) => after = before]_vars

\* C12 witness: the last pending action removes the second of three shown
\* entries.
RemoveDropsTargetWitness ==
  /\ lastTodo.op = "handleRemoveTodo"
  /\ Len(pending) = 2
  /\ pending[1].type = "add"
  /\ Len(todos) = 2
  /\ pending[2].todo.id = todos[1].id
  /\ optimisticTodos = <<pending[1].todo, todos[2]>>

\* The queue with its last two actions exchanged.
SwapLast(queue) ==
  LET n == Len(queue)
  IN [queue EXCEPT ![n] = queue[n - 1], ![n - 1] = queue[n]]

\* The apparent list shows the effect of a pending action on the list it
\* had before the last two actions.
EffectPresent(flow, before, after) ==
  CASE flow.type = "add" -> \E i \in 1..Len(after) : after[i] = flow.todo
    [] flow.type = "remove" -> flow.todo.id \notin Ids(after)
    [] flow.type = "toggle" ->
         {after[i].completed : i \in {k \in 1..Len(after) : after[k].id = flow.todo.id}}
           = {~before[i].completed : i \in {k \in 1..Len(before) : before[k].id = flow.todo.id}}

\* The last two pending actions give the same apparent list in either order,
\* and that list shows both effects.
LastTwoCommute ==
  LET n == Len(pending)
      before == Apply(todos, pending, n - 2)
  IN /\ Apply(todos, SwapLast(pending), n) = optimisticTodos
     /\ EffectPresent(pending[n - 1], before, optimisticTodos)
     /\ EffectPresent(pending[n], before, optimisticTodos)

\* C13 as stated: any two pending actions with different target ids, two adds
\* included, give the same apparent list in either order.
DifferentIdsCommute ==
  (/\ Len(pending) >= 2
   /\ pending[Len(pending)].todo.id # pending[Len(pending) - 1].todo.id)
    => LastTwoCommute

\* C13: two pending actions with different target ids that are not both adds
\* give the same apparent list in either order, with both effects present.
DifferentIdsCommuteUnlessAdds ==
  (/\ Len(pending) >= 2
   /\ pending[Len(pending)].todo.id # pending[Len(pending) - 1].todo.id
   /\ ~(pending[Len(pending)].type = "add" /\ pending[Len(pending) - 1].type = "add"))
    => LastTwoCommute

\* C13 witness: toggle of one confirmed entry and remove of the other are
\* pending on a list of two confirmed entries.
DifferentIdsCommuteUnlessAddsWitness ==
  /\ Len(todos) = 2
  /\ Len(pending) = 2
  /\ pending[1].type = "toggle"
  /\ pending[1].todo.id = todos[2].id
  /\ pending[2].type = "remove"
  /\ pending[2].todo.id = todos[1].id
  /\ optimisticTodos = <<[todos[2] EXCEPT !.completed = ~@]>>

\* The left-to-right fold of the reducer over a queue of actions.
RECURSIVE FoldLeft(_, _)
FoldLeft(state, queue) ==
  IF queue = <<>> THEN state
  ELSE FoldLeft(Reducer(state, ActionOf(Head(queue))), Tail(queue))

\* C14: the apparent list is the left-to-right fold of the reducer over the
\* pending queue from the confirmed list; two toggles of one id in a row leave
\* the list as it was before them, and a toggle and a remove of one id, in
\* either order, leave no entry of that id.
SameIdInIssueOrder ==
  LET n == Len(pending)
  IN /\ optimisticTodos = FoldLeft(todos, pending)
     /\ (/\ n >= 2
         /\ pending[n].todo.id = pending[n - 1].todo.id
         /\ pending[n].type = "toggle"
         /\ pending[n - 1].type = "toggle")
          => optimisticTodos = Apply(todos, pending, n - 2)
     /\ (/\ n >= 2
         /\ pending[n].todo.id = pending[n - 1].todo.id
         /\ {pending[n].type, pending[n - 1].type} = {"toggle", "remove"})
          => pending[n].todo.id \notin Ids(optimisticTodos)

\* C14 witness: an add, then a toggle of the added entry, then a remove of
\* it are pending, and the apparent list is the confirmed list again.
SameIdInIssueOrderWitness ==
  /\ Len(pending) = 3
  /\ pending[1].type = "add"
  /\ pending[2].type = "toggle"
  /\ pending[3].type = "remove"
  /\ pending[2].todo.id = pending[1].todo.id
  /\ pending[3].todo.id = pending[1].todo.id
  /\ Len(todos) >= 1
  /\ optimisticTodos = todos

\* C15: with an empty confirmed list and one pending add, the apparent list
\* is one entry with a temporary id and the text given; after the commit the
\* confirmed list is exactly one entry with a confirmed id and that text, the
\* queue is empty and the apparent list is that same single entry.
AddCommitRoundTrip ==
  [][(/\ lastTodo'.op = "addTodoSettled"
      /\ todos = <<>>
      /\ Len(pending) = 1) =>
       /\ Len(optimisticTodos) = 1
       /\ optimisticTodos[1].id[1] = "temp"
       /\ optimisticTodos[1].text = pending[1].todo.text
       /\ Len(todos') = 1
       /\ todos'[1].id[1] = "uuid"
       /\ todos'[1].text = pending[1].todo.text
       /\ todos'[1].completed = FALSE
       /\ pending' = <<>>
       /\ optimisticTodos' = todos']_vars

\* C15 witness: the first add ever issued has just been committed.
AddCommitRoundTripWitness ==
  /\ lastTodo.op = "addTodoSettled"
  /\ issued = 1
  /\ pending = <<>>
  /\ Len(todos) = 1
  /\ optimisticTodos = todos

\* C16: no entry of the confirmed list has a temporary id, and an entry with
\* a temporary id is in the apparent list only while the add that made it is
\* still in flight.
TempOnlyWhilePending ==
  /\ \A i \in 1..Len(todos) : todos[i].id[1] # "temp"
  /\ \A i \in 1..Len(optimisticTodos) :
        optimisticTodos[i].id[1] = "temp" =>
          \E j \in 1..Len(pending) :
            /\ pending[j].type = "add"
            /\ pending[j].status = "issued"
            /\ pending[j].todo.id = optimisticTodos[i].id

\* C27: when an add completes, the apparent list does not hold both the
\* temporary entry and the confirmed entry of that add, and no two entries
\* of the apparent list ever share an id.
NoTempBesideConfirmed ==
  [][/\ \A j \in 1..Len(pending) :
          ( /\ lastTodo'.op = "addTodoSettled"
            /\ nextId' # nextId
            /\ Len(pending') = Len(pending)
            /\ pending[j].status = "issued"
            /\ pending'[j].status = "settled" )
          => ~( /\ pending[j].todo.id \in Ids(optimisticTodos')
                /\ lastTodo'.todo.id \in Ids(optimisticTodos') )
     /\ \A i, k \in 1..Len(optimisticTodos') :
          i # k => optimisticTodos'[i].id # optimisticTodos'[k].id]_vars

CompletionOrderIrrelevant ==
  \A i, j \in 1..Len(pending) :
    (i # j /\ CanSettle(i) /\ CanSettle(j)) =>
      Commit(Commit(todos, pending[i], nextId, now), pending[j], nextId, now)
        = Commit(Commit(todos, pending[j], nextId, now), pending[i], nextId, now)

\* C19 witness: an add and a later toggle of a confirmed entry are both in
\* flight and either can complete next.
CompletionOrderIrrelevantWitness ==
  \E i, j \in 1..Len(pending) :
    /\ i < j
    /\ CanSettle(i)
    /\ CanSettle(j)
    /\ pending[i].type = "add"
    /\ pending[j].type = "toggle"
    /\ pending[j].todo.id \in Ids(todos)

\* The queue without its i-th flow.
RemoveAt(queue, i) == SubSeq(queue, 1, i - 1) \o SubSeq(queue, i + 1, Len(queue))

\* C20: when the asynchronous operation of a flow rejects, the confirmed list
\* is left as it was, the flow is no longer in flight, and the apparent list
\* is the confirmed list with the other queued actions only.
RejectDiscardsAction ==
  [][lastTodo'.op = "todoRejected" =>
       \E i \in 1..Len(pending) :
         /\ CanSettle(i)
         /\ pending' = Settle(pending, i)
         /\ todos' = todos
         /\ optimisticTodos' = FoldLeft(todos', RemoveAt(pending, i))]_vars

(***************************************************************************)
(* Tasks feature: properties                                               *)
(***************************************************************************)
\* C17: every task of the authoritative list has a non-empty title and a
\* priority among low, medium and high, after any sequence of completed
\* create, toggle and delete operations; a committed toggle keeps the other
\* fields of the entry it updates.
TaskFieldsValid ==
  \A i \in 1..Len(tasks) :
    /\ tasks[i].title # <<>>
    /\ tasks[i].title # UndefinedTitle
    /\ tasks[i].priority \in Priorities

\* C21: submitting a title that is empty or only whitespace puts the error in
\* the form state and changes nothing else: no create is issued, no event is
\* emitted and the authoritative list is unchanged; a title that is not blank
\* is passed on trimmed.
BlankTitleRejected ==
  [][(lastTask'.op = "submitAction" /\ issued' # issued) =>
       LET title == lastTask'.task.title
           blank == \A k \in 1..Len(title) : title[k] = Space
       IN /\ tasks' = tasks
          /\ emitted' = emitted
          /\ blank => /\ formState' = "Task title is required"
                      /\ inflight' = inflight
          /\ ~blank => /\ Len(inflight') = Len(inflight) + 1
                       /\ LET sent == inflight'[Len(inflight')].task.title
                          IN /\ inflight'[Len(inflight')].type = "create"
                             /\ sent # <<>>
                             /\ Head(sent) # Space
                             /\ sent[Len(sent)] # Space
                             /\ \E a, b \in 0..Len(title) :
                                   /\ sent = SubSeq(title, a + 1, Len(title) - b)
                                   /\ \A k \in 1..a : title[k] = Space
                                   /\ \A k \in (Len(title) - b + 1)..Len(title) : title[k] = Space]_vars

\* C21 witness: a title of one space was submitted while a task was in the
\* list, and the form shows the error.
BlankTitleRejectedWitness ==
  /\ lastTask.op = "submitAction"
  /\ lastTask.task.title = <<Space>>
  /\ formState = "Task title is required"
  /\ Len(tasks) >= 1
  /\ inflight = <<>>

\* C22: each create, toggle and delete that completes commits its result to
\* the authoritative list and emits exactly one event, with the name of the
\* operation and the result as payload; nothing is emitted when an operation
\* is issued or while it is in flight.
CompletionEmitsOnce ==
  [][LET op == IF Len(inflight') < Len(inflight) THEN lastTask'.op ELSE "none"
         result == lastTask'.task
         last == emitted'[Len(emitted')]
     IN /\ op \in {"createTaskSettled", "toggleTaskSettled", "deleteTaskSettled"} =>
             /\ Len(emitted') = Len(emitted) + 1
             /\ SubSeq(emitted', 1, Len(emitted)) = emitted
             /\ last.payload = result
        /\ op = "createTaskSettled" =>
             /\ last.name = "task:created"
             /\ tasks' = <<result>> \o tasks
        /\ op = "toggleTaskSettled" =>
             /\ last.name = "task:updated"
             /\ Len(tasks') = Len(tasks)
             /\ \A k \in 1..Len(tasks) :
                   tasks'[k] = IF tasks[k].id = result.id THEN result ELSE tasks[k]
        /\ op = "deleteTaskSettled" =>
             /\ last.name = "task:deleted"
             /\ Len(tasks') = Cardinality(Others(tasks, result.id))
             /\ \A k \in 1..Len(tasks') : tasks'[k] = tasks[Nth(Others(tasks, result.id), k)]
        /\ op = "none" => emitted' = emitted]_vars

\* C22 witness: a create, a toggle and a delete have completed and the bus
\* has seen one event for each, in that order.
CompletionEmitsOnceWitness ==
  /\ lastTask.op = "deleteTaskSettled"
  /\ Len(emitted) = 3
  /\ emitted[1].name = TASK_CREATED
  /\ emitted[2].name = TASK_UPDATED
  /\ emitted[3].name = TASK_DELETED
  /\ emitted[3].payload.id = emitted[1].payload.id
  /\ tasks = <<>>

\* C29: when a toggle completes for a task whose deletion was committed
\* before, the task list is left exactly as it was: the task is not brought
\* back and no other entry changes.
LateToggleNoOp ==
  [][( /\ Len(inflight') < Len(inflight)
       /\ lastTask'.op = "toggleTaskSettled"
       /\ \E k \in 1..Len(emitted) :
            /\ emitted[k].name = TASK_DELETED
            /\ emitted[k].payload.id = lastTask'.task.id )
     => /\ tasks' = tasks
        /\ lastTask'.task.id \notin Ids(tasks')]_vars

\* C29 witness: a toggle of a deleted task has completed after the deletion
\* was committed, and the list still holds another task.
LateToggleNoOpWitness ==
  /\ lastTask.op = "toggleTaskSettled"
  /\ inflight = <<>>
  /\ Len(emitted) >= 2
  /\ emitted[Len(emitted)] = TaskEvent(TASK_UPDATED, lastTask.task)
  /\ emitted[Len(emitted) - 1].name = TASK_DELETED
  /\ emitted[Len(emitted) - 1].payload.id = lastTask.task.id
  /\ tasks # <<>>
  /\ lastTask.task.id \notin Ids(tasks)

(***************************************************************************)
(* Filter, router, effect event, activity demo: properties                 *)
(***************************************************************************)
\* The positions of the todos that the filter f selects.
Matching(list, f) ==
  {i \in 1..Len(list) :
     \/ f = "all"
     \/ f = "active" /\ ~list[i].completed
     \/ f = "completed" /\ list[i].completed}

\* C23: the active count plus the completed count is the number of todos,
\* and the displayed list is exactly the todos that match the selected filter
\* (active: not completed, completed: completed, all: every todo), in the
\* order of the list.
CountsAndFilter ==
  LET shown == FilteredTodos(basic, filter)
      keep == Matching(basic, filter)
  IN /\ activeCount(basic) + completedCount(basic) = Len(basic)
     /\ activeCount(basic) = Cardinality(Matching(basic, "active"))
     /\ completedCount(basic) = Cardinality(Matching(basic, "completed"))
     /\ Len(shown) = Cardinality(keep)
     /\ \A k \in 1..Len(shown) : shown[k] = basic[Nth(keep, k)]

\* C23 witness: three todos, the middle one completed, shown under the
\* filter 'active'.
CountsAndFilterWitness ==
  /\ filter = "active"
  /\ Len(basic) = 3
  /\ basic[2].completed
  /\ FilteredTodos(basic, filter) = <<basic[1], basic[3]>>
  /\ activeCount(basic) = 2
  /\ completedCount(basic) = 1

EffectEventLatest ==
  [][/\ stableFn' = stableFn
     /\ stableFn = Fn(1)
     /\ lastCall' # lastCall =>
          /\ lastCall'.handler = handler
          /\ lastCall'.render = renders]_vars

\* C25 witness: the component was rendered again with another handler, and
\* the function returned by the first render has called that handler.
EffectEventLatestWitness ==
  /\ renders = 2
  /\ handler = "handler2"
  /\ stableFn = Fn(1)
  /\ lastCall = Call("handler2", 2)

\* C30: after any sequence of switchView calls exactly one view is visible,
\* it is the view named by activeViewId, every other view is warm and no
\* view is hidden.
OneViewVisible ==
  /\ Cardinality({v \in Views : viewStates[v] = "visible"}) = 1
  /\ viewStates[activeViewId] = "visible"
  /\ \A v \in Views \ {activeViewId} : viewStates[v] = "warm"
  /\ \A v \in Views : viewStates[v] # "hidden"

====
